---- MODULE Spec2Model ----
(***************************************************************************)
(* A model of protoactor-cpp: the DefaultMailbox drain state machine       *)
(* (include/protoactor/mailbox.hpp) and the process addressing layer       *)
(* (include/protoactor/protoactor.hpp).                                    *)
(*                                                                         *)
(* Every thread owns a call stack of frames.  A frame is one activation of *)
(* a function of the source and its pc names the next access to shared     *)
(* memory that the activation performs; one step of the model is one such  *)
(* access together with the thread-local code around it.                   *)
(***************************************************************************)
EXTENDS Integers, Sequences, FiniteSets, TLC

\* Bounds of the model.
MaxPosts == 3
MaxThroughput == 2
MaxThrows == 1
MaxOps == 4

Threads == {"t1", "t2"}

VARIABLES
    status,      \* DefaultMailbox::status_      (mailbox.hpp:224)
    suspended,   \* DefaultMailbox::suspended_   (mailbox.hpp:225)
    sysq,        \* DefaultMailbox::system_messages_ (mailbox.hpp:226)
    userq,       \* DefaultMailbox::user_mailbox_    (mailbox.hpp:227)
    dispatcher,  \* kind of the IDispatcher bound by register_handlers
    throughput,  \* IDispatcher::throughput() of the bound dispatcher
    pending,     \* runnables handed to an asynchronous dispatcher, not yet started
    stack,       \* per thread: the call stack, innermost frame first
    ctxMsg,      \* LocalContext::message_       (protoactor.hpp:121)
    nposted,     \* number of messages pushed so far (gives message ids)
    log,         \* history: the invoker calls, in the order they began
    escalated,   \* history: the messages handed to escalate_failure
    destroyed,   \* history: kinds of messages on which `delete` was executed
    stuck,       \* history: an exception left run() before status_.store(Idle)
    bound,       \* register_handlers has set invoker_ and dispatcher_
    reg,         \* ProcessRegistry::local_actor_refs_ at the one id in use
    dead,        \* the processes whose LocalProcess::is_dead_ is true
    cache,       \* per thread: PID::process_ of the PID object the thread uses
    nspawn,      \* number of LocalProcess objects constructed so far
    nstop,       \* number of calls of LocalProcess::stop so far
    ntell,       \* number of calls of PID::tell so far
    added,       \* history: the processes whose try_add returned a PID
    refused,     \* history: the processes whose try_add threw
    stopDone,    \* history: a call of LocalProcess::stop has returned
    lateSends,   \* history: user messages pushed by a tell begun after that
    dropped,     \* history: per thread, the messages of its tells that the
                 \* DeadLetterProcess took
    crashed,     \* history: dispatcher_ was dereferenced while still nullptr
    iterAt,      \* history: per thread, nposted when its drain iteration began
    postLimit,   \* the number of posts the callers of the mailbox make at most
    incarnated   \* history: the processes for which a LocalContext was made

mailbox == <<status, suspended, sysq, userq, pending, ctxMsg, nposted>>
config == <<dispatcher, throughput>>
history == <<log, escalated, destroyed, stuck>>
registry == <<bound, reg, dead, cache, nspawn, nstop, ntell, added, refused,
              stopDone, lateSends, dropped, crashed, incarnated>>
budget == <<iterAt, postLimit,
                   incarnated>>

vars == <<mailbox, config, stack, history, registry, budget>>

-----------------------------------------------------------------------------
(* Messages *)

SysKinds == {"Started", "Stop", "Suspend", "Resume"}

NoMsg == [kind |-> "none", id |-> 0]

NewMsg(k) == [kind |-> k, id |-> nposted + 1]

\* Message::do_not_delete_: only StartedMessage and StopMessage pass `true`
\* to SystemMessage's constructor; SuspendMailboxMessage and
\* ResumeMailboxMessage take the default `false`.
DoNotDelete(m) == m.kind \in {"Started", "Stop"}

\* Message::Deleter::operator(): delete unless null or do_not_delete_.
Deleter(m, d) == IF m # NoMsg /\ ~DoNotDelete(m) THEN d \cup {m.kind} ELSE d

\* A shared_ptr<Message> local of the drain gives up its reference: the
\* deleter runs unless the context's message_ slot still co-owns the message.
Drop(m, d) == IF m = NoMsg \/ ctxMsg = m THEN d ELSE Deleter(m, d)

-----------------------------------------------------------------------------
(* Frames and call stacks *)

Frame(pc) == [pc |-> pc, i |-> 0, n |-> 0, msg |-> NoMsg, seen |-> FALSE,
              p |-> 0, late |-> FALSE, absent |-> FALSE]

\* A thread is outside every call, or inside one; after the null dispatcher_
\* was dereferenced no thread takes another step.
Idle(t) == ~crashed /\ stack[t] = <<>>
Live(t) == ~crashed /\ stack[t] # <<>>
Top(t) == Head(stack[t])
At(t, pc) == Live(t) /\ Top(t).pc = pc

Call(t, f) == stack' = [stack EXCEPT ![t] = <<f>> \o @]
Goto(t, f) == stack' = [stack EXCEPT ![t] = <<f>> \o Tail(@)]
Return(t) == stack' = [stack EXCEPT ![t] = Tail(@)]
Unwind(t) == stack' = [stack EXCEPT ![t] = <<>>]

\* Mutant: invoke_system_message passes nothing on.
PromotedNever(m) == FALSE

\* LocalContext::invoke_system_message: a StartedMessage is passed on to
\* invoke_user_message, every other system message is ignored.
Promoted(m) == m.kind = "Started"

\* Only Started, of the system messages, reaches the actor.
CallsReceive(f) ==
    \/ f.pc = "inv_user"
    \/ f.pc = "inv_sys" /\ Promoted(f.msg)

Invoking(t) == Live(t) /\ Top(t).pc \in {"inv_sys", "inv_user"}
InReceive(t) == Invoking(t) /\ CallsReceive(Top(t))

-----------------------------------------------------------------------------
(* DefaultMailbox: posting and scheduling (mailbox.hpp:122-162) *)

\* A thread may call into the mailbox from outside, or from the actor's own
\* receive while the drain that runs on this thread is invoking it.
CanPost(t) == (Idle(t) \/ InReceive(t)) /\ nposted < postLimit

\* The system messages posted straight to a mailbox; Stop is posted through
\* LocalProcess::stop.
PostedKinds == {"Started", "Suspend", "Resume"}

\* Mutant: the user queue takes a new message at its front.
PostUserPushFront(t) ==
    /\ userq' = <<NewMsg("User")>> \o userq
    /\ nposted' = nposted + 1
    /\ Call(t, Frame("sched_cas"))

\* DefaultMailbox::post_user_message: message_posted (stats_ is empty for
\* UnboundedMailbox::create()), push, then schedule().
PostUserPush(t) ==
    /\ userq' = Append(userq, NewMsg("User"))
    /\ nposted' = nposted + 1
    /\ Call(t, Frame("sched_cas"))

\* DefaultMailbox::post_system_message: push on the system queue, schedule().
PostSystemPush(t, k) ==
    /\ sysq' = Append(sysq, NewMsg(k))
    /\ nposted' = nposted + 1
    /\ Call(t, Frame("sched_cas"))

\* A mailbox made with statistics observers: the posts that have called
\* message_posted and not pushed yet, and the messages made so far.
Notified == {x \in UNION {{<<t, k>> : k \in DOMAIN stack[t]} : t \in Threads} :
                stack[x[1]][x[2]].pc = "post_push"}
Made == nposted + Cardinality(Notified)

\* post_user_message / post_system_message, the loop over stats_: every
\* observer gets message_posted(*message) for the message the caller passed,
\* which the caller's unique_ptr still owns.
StatsMessagePosted(t, k) ==
    Call(t, [Frame("post_push") EXCEPT !.msg = [kind |-> k, id |-> Made + 1]])

\* system_messages_->push(message) or user_mailbox_->push(message), and the
\* call of schedule().
QueuePush(t) ==
    LET m == Top(t).msg IN
    /\ IF m.kind = "User"
       THEN userq' = Append(userq, m) /\ UNCHANGED sysq
       ELSE sysq' = Append(sysq, m) /\ UNCHANGED userq
    /\ nposted' = nposted + 1
    /\ Goto(t, Frame("sched_cas"))

\* Mutant: schedule hands a runnable over whatever status_ holds.
ScheduleCasUnconditional(t) ==
    /\ status' = "Busy"
    /\ Goto(t, Frame("sched_hand"))

\* Mutant: schedule tests status_ for Idle and forgets to make it Busy.
ScheduleCasNoStore(t) ==
    IF status = "Idle"
    THEN /\ Goto(t, Frame("sched_hand"))
         /\ UNCHANGED status
    ELSE /\ Return(t)
         /\ UNCHANGED status

\* DefaultMailbox::schedule, the compare_exchange_strong(Idle, Busy).
ScheduleCas(t) ==
    IF status = "Idle"
    THEN /\ status' = "Busy"
         /\ Goto(t, Frame("sched_hand"))
    ELSE /\ Return(t)
         /\ UNCHANGED status

\* DefaultMailbox::schedule, dispatcher_->schedule([this]{ run(); }) by the
\* thread whose CAS succeeded.  SynchronousDispatcher::schedule calls the
\* runner inline; an asynchronous dispatcher keeps it for a worker.  Before
\* register_handlers dispatcher_ is nullptr and the call cannot be made.
ScheduleHand(t) ==
    IF ~bound
    THEN /\ crashed' = TRUE
         /\ Unwind(t)
         /\ UNCHANGED pending
    ELSE IF dispatcher = "sync"
    THEN /\ Goto(t, Frame("pm_loop"))
         /\ UNCHANGED <<pending, crashed>>
    ELSE /\ pending' = pending + 1
         /\ Return(t)
         /\ UNCHANGED crashed

-----------------------------------------------------------------------------
(* DefaultMailbox::process_messages (mailbox.hpp:167-203) *)

\* Mutant: the loop has no bound.
LoopUnbounded(f) == TRUE

\* The loop bound of the for statement.
LoopContinues(f) == f.i < throughput

\* Mutant: an iteration goes to the user queue first when it holds a message.
PollUserFirst(t) ==
    LET f == Top(t) IN
    /\ destroyed' = Drop(f.msg, destroyed)
    /\ IF ~(f.i < throughput)
       THEN /\ Goto(t, [f EXCEPT !.pc = "idle_store", !.msg = NoMsg])
            /\ UNCHANGED sysq
       ELSE IF sysq # <<>> /\ userq = <<>>
       THEN /\ sysq' = Tail(sysq)
            /\ Goto(t, [f EXCEPT !.pc = "pm_sys", !.msg = Head(sysq)])
       ELSE /\ Goto(t, [f EXCEPT !.pc = "pm_user", !.msg = NoMsg])
            /\ UNCHANGED sysq

\* for (i < throughput()) { message = system_messages_->pop(); ...
\* The assignment releases the message of the previous iteration; leaving
\* the loop ends process_messages and with it the local `message`.
PollSystem(t) ==
    LET f == Top(t) IN
    /\ destroyed' = Drop(f.msg, destroyed)
    /\ IF ~LoopContinues(f)
       THEN /\ Goto(t, [f EXCEPT !.pc = "idle_store", !.msg = NoMsg])
            /\ UNCHANGED sysq
       ELSE IF sysq # <<>>
       THEN /\ sysq' = Tail(sysq)
            /\ Goto(t, [f EXCEPT !.pc = "pm_sys", !.msg = Head(sysq)])
       ELSE /\ Goto(t, [f EXCEPT !.pc = "pm_user", !.msg = NoMsg])
            /\ UNCHANGED sysq

\* The dynamic_casts on the popped system message: the new value of suspended_.
MarkSuspended(m, s) ==
    IF m.kind = "Suspend" THEN TRUE
    ELSE IF m.kind = "Resume" THEN FALSE
    ELSE s

\* LocalContext::process_message, message_ = message: the slot takes a share
\* of the message and gives up the one it held (one left by an invocation
\* that threw).
SlotAssign(m) ==
    /\ ctxMsg' = m
    /\ destroyed' = IF ctxMsg # NoMsg /\ ctxMsg # m THEN Deleter(ctxMsg, destroyed) ELSE destroyed

\* suspended_ is written and invoker_->invoke_system_message(message) begins.
BeginSystem(t) ==
    LET f == Top(t) IN
    /\ suspended' = MarkSuspended(f.msg, suspended)
    /\ log' = Append(log, [msg |-> f.msg, via |-> "sys"])
    /\ Goto(t, [f EXCEPT !.pc = "inv_sys", !.n = @ + 1])
    /\ IF Promoted(f.msg)
       THEN SlotAssign(f.msg)
       ELSE UNCHANGED <<ctxMsg, destroyed>>

\* Mutant: the drain does not look at suspended_.
UserAllowedAlways == TRUE

\* Whether the drain goes on to the user queue after the system queue
\* answered empty: if (suspended_) break.
UserAllowed == ~suspended

\* if (suspended_) break; message = user_mailbox_->pop(); if (message)
\* invoker_->invoke_user_message(message) begins, else break.
PollUser(t) ==
    LET f == Top(t) IN
    IF UserAllowed /\ userq # <<>>
    THEN /\ userq' = Tail(userq)
         /\ log' = Append(log, [msg |-> Head(userq), via |-> "user"])
         /\ Goto(t, [f EXCEPT !.pc = "inv_user", !.msg = Head(userq), !.n = @ + 1])
         /\ SlotAssign(Head(userq))
    ELSE /\ Goto(t, [f EXCEPT !.pc = "idle_store", !.msg = NoMsg])
         /\ UNCHANGED <<userq, log, ctxMsg, destroyed>>

\* The invoker call returns: process_message resets the slot (the drain's
\* local still owns the message), message_received, next iteration.
InvokeReturns(t) ==
    LET f == Top(t) IN
    /\ ctxMsg' = IF CallsReceive(f) THEN NoMsg ELSE ctxMsg
    /\ Goto(t, [f EXCEPT !.pc = "pm_loop", !.i = @ + 1])

\* The actor's receive may still throw (the model bounds how often it does).
CanThrow == Len(escalated) + (IF stuck THEN 1 ELSE 0) < MaxThrows

\* The actor's receive throws something derived from std::exception: the
\* catch clause calls escalate_failure(e, message) and process_messages
\* returns true.  message_.reset() is skipped, the slot keeps the message.
InvokeThrowsStd(t) ==
    LET f == Top(t) IN
    /\ escalated' = Append(escalated, f.msg)
    /\ Goto(t, [f EXCEPT !.pc = "idle_store", !.msg = NoMsg])

\* The actor's receive throws anything else: catch (const std::exception &)
\* does not match, the exception leaves process_messages and run, and
\* through SynchronousDispatcher::schedule the whole call chain of the thread.
InvokeThrowsOther(t) ==
    /\ Unwind(t)
    /\ stuck' = TRUE

-----------------------------------------------------------------------------
(* DefaultMailbox::run after process_messages (mailbox.hpp:205-219) *)

\* status_.store(MailboxStatus::Idle)
StoreIdle(t) ==
    /\ status' = "Idle"
    /\ Goto(t, [Top(t) EXCEPT !.pc = "recheck_sys", !.seen = suspended])

\* system_messages_->has_messages() of the post-drain check.
SysHasMessages == sysq # <<>>

RecheckSys(t) ==
    IF SysHasMessages
    THEN Goto(t, Frame("sched_cas"))
    ELSE Goto(t, [Top(t) EXCEPT !.pc = "recheck_user"])

\* !suspended_ && user_mailbox_->has_messages() of the post-drain check, for
\* the value s read from suspended_.
UserDeliverable(s) == ~s /\ userq # <<>>

\* Mutant: run returns after the store of Idle without looking at the user
\* queue again.
RecheckUserSkipped(t) == Return(t)

\* The read of suspended_ here is not ordered after the store of Idle for a
\* plain bool, and another drain may already be writing it: it yields either
\* the value this thread last saw or the current one.
RecheckUser(t) ==
    \E s \in {Top(t).seen, suspended} :
        IF UserDeliverable(s)
        THEN Goto(t, Frame("sched_cas"))
        ELSE Return(t)

-----------------------------------------------------------------------------
(* ProcessRegistry, PID and LocalProcess (protoactor.hpp:174-381) *)

\* The model bounds the number of calls of spawn, tell and stop.
CanCall == nspawn + ntell + nstop < MaxOps

\* No process: an empty map slot and a null PID::process_.
NoProc == 0

\* DeadLetterProcess::instance()
DeadLetter == -1

\* ProcessRegistry::get: the process mapped to the id, dead or not, else the
\* dead-letter process.
RegistryGet == IF reg = NoProc THEN DeadLetter ELSE reg

\* Mutant: the insertion assigns over an entry that is there.
EmplaceOverwrites(r, p) == [slot |-> p, second |-> TRUE]

\* local_actor_refs_.emplace(id, process) on a map slot holding r: the slot
\* afterwards and the `second` of the returned pair.
Emplace(r, p) ==
    IF r = NoProc
    THEN [slot |-> p, second |-> TRUE]
    ELSE [slot |-> r, second |-> FALSE]

\* Mutant: ref keeps whatever the registry answered.
PidRefCachesAnswer(c) ==
    IF c # NoProc
    THEN IF c \in dead
         THEN [cache |-> NoProc, p |-> NoProc]
         ELSE [cache |-> c, p |-> c]
    ELSE [cache |-> RegistryGet, p |-> RegistryGet]

\* PID::ref on a PID whose process_ is c: the new process_ and the pointer
\* returned (process_ itself).  A cached LocalProcess that is dead is
\* forgotten; the answer of the registry is kept unless it is the
\* DeadLetterProcess.
PidRef(c) ==
    IF c # NoProc
    THEN IF c \in dead
         THEN [cache |-> NoProc, p |-> NoProc]
         ELSE [cache |-> c, p |-> c]
    ELSE IF RegistryGet # DeadLetter
         THEN [cache |-> RegistryGet, p |-> RegistryGet]
         ELSE [cache |-> NoProc, p |-> NoProc]

\* Mutant: try_add returns a PID whatever the emplace answered.
TryAddNeverThrows(second) == "try_add_ok"

\* if (!emplace_result.second) throw ProcessNameExistException(id);
\* return pid: where try_add goes on after the emplace.
TryAddResult(second) == IF second THEN "try_add_ok" ELSE "try_add_dup"

-----------------------------------------------------------------------------
(* The steps of the threads: the mailbox *)

\* History: the number of messages pushed when the drain iteration that
\* thread t is in polled the system queue; 0 outside an iteration.
IterSet(t, v) == iterAt' = [iterAt EXCEPT ![t] = v]

\* A caller of DefaultMailbox::post_user_message.
PostUserMessage(t) ==
    /\ CanPost(t)
    /\ PostUserPush(t)
    /\ UNCHANGED <<status, suspended, sysq, pending, ctxMsg, dispatcher,
                   throughput, log, escalated, destroyed, stuck, bound, reg,
                   dead, cache, nspawn, nstop, ntell, added, refused,
                   stopDone, lateSends, dropped, crashed, iterAt, postLimit,
                   incarnated>>

\* A caller of DefaultMailbox::post_system_message.
PostSystemMessage(t) ==
    /\ CanPost(t)
    /\ \E k \in PostedKinds : PostSystemPush(t, k)
    /\ UNCHANGED <<status, suspended, userq, pending, ctxMsg, dispatcher,
                   throughput, log, escalated, destroyed, stuck, bound, reg,
                   dead, cache, nspawn, nstop, ntell, added, refused,
                   stopDone, lateSends, dropped, crashed, iterAt, postLimit,
                   incarnated>>

\* A caller of DefaultMailbox::post_system_message that suspends or resumes.
PostSuspendResume(t) ==
    /\ CanPost(t)
    /\ \E k \in {"Suspend", "Resume"} : PostSystemPush(t, k)
    /\ UNCHANGED <<status, suspended, userq, pending, ctxMsg, dispatcher,
                   throughput, log, escalated, destroyed, stuck, bound, reg,
                   dead, cache, nspawn, nstop, ntell, added, refused,
                   stopDone, lateSends, dropped, crashed, iterAt, postLimit,
                   incarnated>>

\* A caller of post_user_message or post_system_message of a mailbox with
\* statistics observers, up to the end of the message_posted loop.
PostNotify(t) ==
    /\ Idle(t) \/ InReceive(t)
    /\ Made < postLimit
    /\ \E k \in {"User"} \cup PostedKinds : StatsMessagePosted(t, k)
    /\ UNCHANGED <<status, suspended, sysq, userq, pending, ctxMsg, nposted,
                   dispatcher, throughput, log, escalated, destroyed, stuck,
                   bound, reg, dead, cache, nspawn, nstop, ntell, added,
                   refused, stopDone, lateSends, dropped, crashed, iterAt,
                   postLimit, incarnated>>

\* The push that follows the message_posted loop, and the call of schedule.
PostPush(t) ==
    /\ At(t, "post_push")
    /\ QueuePush(t)
    /\ UNCHANGED <<status, suspended, pending, ctxMsg, dispatcher,
                   throughput, log, escalated, destroyed, stuck, bound, reg,
                   dead, cache, nspawn, nstop, ntell, added, refused,
                   stopDone, lateSends, dropped, crashed, iterAt, postLimit,
                   incarnated>>

Schedule(t) ==
    /\ At(t, "sched_cas")
    /\ ScheduleCas(t)
    /\ UNCHANGED <<suspended, sysq, userq, pending, ctxMsg, nposted,
                   dispatcher, throughput, log, escalated, destroyed, stuck,
                   bound, reg, dead, cache, nspawn, nstop, ntell, added,
                   refused, stopDone, lateSends, dropped, crashed, iterAt,
                   postLimit,
                   incarnated>>

HandToDispatcher(t) ==
    /\ At(t, "sched_hand")
    /\ ScheduleHand(t)
    /\ UNCHANGED <<status, suspended, sysq, userq, ctxMsg, nposted,
                   dispatcher, throughput, log, escalated, destroyed, stuck,
                   bound, reg, dead, cache, nspawn, nstop, ntell, added,
                   refused, stopDone, lateSends, dropped, iterAt, postLimit,
                   incarnated>>

\* An asynchronous dispatcher starts a runnable it was handed, once, on a
\* thread that is free.
DispatcherRuns(t) ==
    /\ dispatcher = "async"
    /\ pending > 0
    /\ Idle(t)
    /\ pending' = pending - 1
    /\ Call(t, Frame("pm_loop"))
    /\ UNCHANGED <<status, suspended, sysq, userq, ctxMsg, nposted,
                   dispatcher, throughput, log, escalated, destroyed, stuck,
                   bound, reg, dead, cache, nspawn, nstop, ntell, added,
                   refused, stopDone, lateSends, dropped, crashed, iterAt,
                   postLimit,
                   incarnated>>

DrainPollSystem(t) ==
    /\ At(t, "pm_loop")
    /\ PollSystem(t)
    /\ IterSet(t, IF Head(stack'[t]).pc = "idle_store" THEN 0 ELSE nposted)
    /\ UNCHANGED <<status, suspended, userq, pending, ctxMsg, nposted,
                   dispatcher, throughput, log, escalated, stuck, bound, reg,
                   dead, cache, nspawn, nstop, ntell, added, refused,
                   stopDone, lateSends, dropped, crashed, postLimit,
                   incarnated>>

DrainBeginSystem(t) ==
    /\ At(t, "pm_sys")
    /\ BeginSystem(t)
    /\ UNCHANGED <<status, sysq, userq, pending, nposted, dispatcher,
                   throughput, escalated, stuck, bound, reg, dead, cache,
                   nspawn, nstop, ntell, added, refused, stopDone, lateSends,
                   dropped, crashed, iterAt, postLimit,
                   incarnated>>

DrainPollUser(t) ==
    /\ At(t, "pm_user")
    /\ PollUser(t)
    /\ IterSet(t, IF Head(stack'[t]).pc = "idle_store" THEN 0 ELSE iterAt[t])
    /\ UNCHANGED <<status, suspended, sysq, pending, nposted, dispatcher,
                   throughput, escalated, stuck, bound, reg, dead, cache,
                   nspawn, nstop, ntell, added, refused, stopDone, lateSends,
                   dropped, crashed, postLimit,
                   incarnated>>

DrainInvokeReturns(t) ==
    /\ Invoking(t)
    /\ InvokeReturns(t)
    /\ IterSet(t, 0)
    /\ UNCHANGED <<status, suspended, sysq, userq, pending, nposted,
                   dispatcher, throughput, log, escalated, destroyed, stuck,
                   bound, reg, dead, cache, nspawn, nstop, ntell, added,
                   refused, stopDone, lateSends, dropped, crashed, postLimit,
                   incarnated>>

DrainInvokeThrowsStd(t) ==
    /\ InReceive(t)
    /\ CanThrow
    /\ InvokeThrowsStd(t)
    /\ IterSet(t, 0)
    /\ UNCHANGED <<status, suspended, sysq, userq, pending, ctxMsg, nposted,
                   dispatcher, throughput, log, destroyed, stuck, bound, reg,
                   dead, cache, nspawn, nstop, ntell, added, refused,
                   stopDone, lateSends, dropped, crashed, postLimit,
                   incarnated>>

DrainInvokeThrowsOther(t) ==
    /\ InReceive(t)
    /\ CanThrow
    /\ InvokeThrowsOther(t)
    /\ IterSet(t, 0)
    /\ UNCHANGED <<status, suspended, sysq, userq, pending, ctxMsg, nposted,
                   dispatcher, throughput, log, escalated, destroyed, bound,
                   reg, dead, cache, nspawn, nstop, ntell, added, refused,
                   stopDone, lateSends, dropped, crashed, postLimit,
                   incarnated>>

RunStoreIdle(t) ==
    /\ At(t, "idle_store")
    /\ StoreIdle(t)
    /\ UNCHANGED <<suspended, sysq, userq, pending, ctxMsg, nposted,
                   dispatcher, throughput, log, escalated, destroyed, stuck,
                   bound, reg, dead, cache, nspawn, nstop, ntell, added,
                   refused, stopDone, lateSends, dropped, crashed, iterAt,
                   postLimit,
                   incarnated>>

RunRecheckSys(t) ==
    /\ At(t, "recheck_sys")
    /\ RecheckSys(t)
    /\ UNCHANGED <<status, suspended, sysq, userq, pending, ctxMsg, nposted,
                   dispatcher, throughput, log, escalated, destroyed, stuck,
                   bound, reg, dead, cache, nspawn, nstop, ntell, added,
                   refused, stopDone, lateSends, dropped, crashed, iterAt,
                   postLimit,
                   incarnated>>

RunRecheckUser(t) ==
    /\ At(t, "recheck_user")
    /\ RecheckUser(t)
    /\ UNCHANGED <<status, suspended, sysq, userq, pending, ctxMsg, nposted,
                   dispatcher, throughput, log, escalated, destroyed, stuck,
                   bound, reg, dead, cache, nspawn, nstop, ntell, added,
                   refused, stopDone, lateSends, dropped, crashed, iterAt,
                   postLimit,
                   incarnated>>

-----------------------------------------------------------------------------
(* The steps of the threads: spawn, tell and stop *)

\* Props::default_spawner up to ProcessRegistry::try_add's emplace under the
\* mutex: a mailbox and a LocalProcess are made and the process is offered to
\* the map.
TryAdd(t) ==
    /\ Idle(t)
    /\ CanCall
    /\ LET p == nspawn + 1
           e == Emplace(reg, p)
       IN /\ reg' = e.slot
          /\ nspawn' = p
          /\ Call(t, [Frame(TryAddResult(e.second)) EXCEPT !.p = p])
    /\ UNCHANGED <<status, suspended, sysq, userq, pending, ctxMsg, nposted,
                   dispatcher, throughput, log, escalated, destroyed, stuck,
                   bound, dead, cache, nstop, ntell, added, refused,
                   stopDone, lateSends, dropped, crashed, iterAt, postLimit,
                   incarnated>>

\* if (!emplace_result.second) throw ProcessNameExistException(id): the
\* exception leaves default_spawner and the spawn.
TryAddThrows(t) ==
    /\ At(t, "try_add_dup")
    /\ refused' = refused \cup {Top(t).p}
    /\ Return(t)
    /\ UNCHANGED <<status, suspended, sysq, userq, pending, ctxMsg, nposted,
                   dispatcher, throughput, log, escalated, destroyed, stuck,
                   bound, reg, dead, cache, nspawn, nstop, ntell, added,
                   stopDone, lateSends, dropped, crashed, iterAt, postLimit,
                   incarnated>>

\* return pid
TryAddReturns(t) ==
    /\ At(t, "try_add_ok")
    /\ added' = added \cup {Top(t).p}
    /\ Goto(t, [Top(t) EXCEPT !.pc = "spawn_ctx"])
    /\ UNCHANGED <<status, suspended, sysq, userq, pending, ctxMsg, nposted,
                   dispatcher, throughput, log, escalated, destroyed, stuck,
                   bound, reg, dead, cache, nspawn, nstop, ntell, refused,
                   stopDone, lateSends, dropped, crashed, iterAt, postLimit,
                   incarnated>>

\* std::make_shared<LocalContext>(props.producer(), parent): the constructor
\* incarnates the actor through the producer.
SpawnContext(t) ==
    /\ At(t, "spawn_ctx")
    /\ incarnated' = incarnated \cup {Top(t).p}
    /\ Goto(t, [Top(t) EXCEPT !.pc = "spawn_bind"])
    /\ UNCHANGED <<status, suspended, sysq, userq, pending, ctxMsg, nposted,
                   dispatcher, throughput, log, escalated, destroyed, stuck,
                   bound, reg, dead, cache, nspawn, nstop, ntell, added,
                   refused, stopDone, lateSends, dropped, crashed, iterAt,
                   postLimit>>

\* mailbox->register_handlers(ctx, dispatcher) sets invoker_ and dispatcher_.
SpawnRegisterHandlers(t) ==
    /\ At(t, "spawn_bind")
    /\ bound' = TRUE
    /\ Goto(t, [Top(t) EXCEPT !.pc = "spawn_post"])
    /\ UNCHANGED <<status, suspended, sysq, userq, pending, ctxMsg, nposted,
                   dispatcher, throughput, log, escalated, destroyed, stuck,
                   reg, dead, cache, nspawn, nstop, ntell, added, refused,
                   stopDone, lateSends, dropped, crashed, iterAt, postLimit,
                   incarnated>>

\* mailbox->post_system_message(StartedMessage::instance()); what is left of
\* default_spawner waits below the call of schedule.
SpawnPostStarted(t) ==
    /\ At(t, "spawn_post")
    /\ sysq' = Append(sysq, NewMsg("Started"))
    /\ nposted' = nposted + 1
    /\ stack' = [stack EXCEPT ![t] =
                    <<Frame("sched_cas"), [Top(t) EXCEPT !.pc = "spawn_start"]>> \o Tail(@)]
    /\ UNCHANGED <<status, suspended, userq, pending, ctxMsg, dispatcher,
                   throughput, log, escalated, destroyed, stuck, bound, reg,
                   dead, cache, nspawn, nstop, ntell, added, refused,
                   stopDone, lateSends, dropped, crashed, iterAt, postLimit,
                   incarnated>>

\* mailbox->start(); return pid
SpawnStart(t) ==
    /\ At(t, "spawn_start")
    /\ Return(t)
    /\ UNCHANGED <<status, suspended, sysq, userq, pending, ctxMsg, nposted,
                   dispatcher, throughput, log, escalated, destroyed, stuck,
                   bound, reg, dead, cache, nspawn, nstop, ntell, added,
                   refused, stopDone, lateSends, dropped, crashed, iterAt,
                   postLimit,
                   incarnated>>

\* PID::tell, the call of ref().
TellRef(t) ==
    /\ Idle(t)
    /\ CanCall
    /\ ntell' = ntell + 1
    /\ LET r == PidRef(cache[t])
       IN /\ cache' = [cache EXCEPT ![t] = r.cache]
          /\ Call(t, [Frame(IF r.p = NoProc THEN "tell_get" ELSE "tell_send")
                        EXCEPT !.p = r.p, !.late = stopDone,
                               !.absent = (reg = NoProc)])
    /\ UNCHANGED <<status, suspended, sysq, userq, pending, ctxMsg, nposted,
                   dispatcher, throughput, log, escalated, destroyed, stuck,
                   bound, reg, dead, nspawn, nstop, added, refused, stopDone,
                   lateSends, dropped, crashed, iterAt, postLimit,
                   incarnated>>

\* PID::tell, p ? *p : ProcessRegistry::instance().get(*this)
TellGet(t) ==
    /\ At(t, "tell_get")
    /\ Goto(t, [Top(t) EXCEPT !.pc = "tell_send", !.p = RegistryGet])
    /\ UNCHANGED <<status, suspended, sysq, userq, pending, ctxMsg, nposted,
                   dispatcher, throughput, log, escalated, destroyed, stuck,
                   bound, reg, dead, cache, nspawn, nstop, ntell, added,
                   refused, stopDone, lateSends, dropped, crashed, iterAt,
                   postLimit,
                   incarnated>>

\* reff.send_user_message(this, message): DeadLetterProcess lets the message
\* go (its unique_ptr parameter dies), LocalProcess posts it to its mailbox.
TellSend(t) ==
    /\ At(t, "tell_send")
    /\ IF Top(t).p = DeadLetter
       THEN /\ dropped' = [dropped EXCEPT ![t] = @ + 1]
            /\ destroyed' = Deleter([kind |-> "User", id |-> 0], destroyed)
            /\ Return(t)
            /\ UNCHANGED <<userq, nposted, lateSends>>
       ELSE /\ userq' = Append(userq, NewMsg("User"))
            /\ nposted' = nposted + 1
            /\ lateSends' = lateSends + (IF Top(t).late THEN 1 ELSE 0)
            /\ Goto(t, Frame("sched_cas"))
            /\ UNCHANGED <<dropped, destroyed>>
    /\ UNCHANGED <<status, suspended, sysq, pending, ctxMsg, dispatcher,
                   throughput, log, escalated, stuck, bound, reg, dead,
                   cache, nspawn, nstop, ntell, added, refused, stopDone,
                   crashed, iterAt, postLimit,
                   incarnated>>

\* LocalProcess::stop on the registered process: Process::stop sends
\* StopMessage::instance() as a system message; is_dead_.store(true) waits
\* below the call of schedule.
StopSend(t) ==
    /\ Idle(t)
    /\ reg # NoProc
    /\ CanCall
    /\ nstop' = nstop + 1
    /\ sysq' = Append(sysq, NewMsg("Stop"))
    /\ nposted' = nposted + 1
    /\ stack' = [stack EXCEPT ![t] =
                    <<Frame("sched_cas"), [Frame("stop_dead") EXCEPT !.p = reg]>>]
    /\ UNCHANGED <<status, suspended, userq, pending, ctxMsg, dispatcher,
                   throughput, log, escalated, destroyed, stuck, bound, reg,
                   dead, cache, nspawn, ntell, added, refused, stopDone,
                   lateSends, dropped, crashed, iterAt, postLimit,
                   incarnated>>

\* is_dead_.store(true), and stop returns.
StopMarkDead(t) ==
    /\ At(t, "stop_dead")
    /\ dead' = dead \cup {Top(t).p}
    /\ stopDone' = TRUE
    /\ Return(t)
    /\ UNCHANGED <<status, suspended, sysq, userq, pending, ctxMsg, nposted,
                   dispatcher, throughput, log, escalated, destroyed, stuck,
                   bound, reg, cache, nspawn, nstop, ntell, added, refused,
                   lateSends, dropped, crashed, iterAt, postLimit,
                   incarnated>>

-----------------------------------------------------------------------------
(* Specifications *)

InitCommon ==
    /\ status = "Idle"
    /\ suspended = FALSE
    /\ sysq = <<>>
    /\ userq = <<>>
    /\ pending = 0
    /\ stack = [t \in Threads |-> <<>>]
    /\ ctxMsg = NoMsg
    /\ nposted = 0
    /\ log = <<>>
    /\ escalated = <<>>
    /\ destroyed = {}
    /\ stuck = FALSE
    /\ reg = NoProc
    /\ dead = {}
    /\ cache = [t \in Threads |-> NoProc]
    /\ nspawn = 0
    /\ nstop = 0
    /\ ntell = 0
    /\ added = {}
    /\ refused = {}
    /\ stopDone = FALSE
    /\ lateSends = 0
    /\ dropped = [t \in Threads |-> 0]
    /\ crashed = FALSE
    /\ iterAt = [t \in Threads |-> 0]
    /\ incarnated = {}

\* SynchronousDispatcher::throughput
DefaultThroughput == 300

\* A DefaultMailbox after construction and register_handlers with some
\* dispatcher, used through post_user_message and post_system_message.
Init ==
    /\ InitCommon
    /\ bound = TRUE
    /\ dispatcher \in {"sync", "async"}
    /\ throughput \in 1..MaxThroughput
    /\ postLimit = MaxPosts

DrainStep(t) ==
    \/ Schedule(t)
    \/ HandToDispatcher(t)
    \/ DispatcherRuns(t)
    \/ DrainPollSystem(t)
    \/ DrainBeginSystem(t)
    \/ DrainPollUser(t)
    \/ DrainInvokeReturns(t)
    \/ DrainInvokeThrowsStd(t)
    \/ DrainInvokeThrowsOther(t)
    \/ RunStoreIdle(t)
    \/ RunRecheckSys(t)
    \/ RunRecheckUser(t)

Next ==
    \E t \in Threads :
        \/ PostUserMessage(t)
        \/ PostSystemMessage(t)
        \/ DrainStep(t)

Spec == Init /\ [][Next]_vars

\* The mailbox under a dispatcher of throughput 1, with an actor that does
\* not throw and callers that post user messages, SuspendMailbox and
\* ResumeMailbox, one more of them than in Spec.
InitOne ==
    /\ InitCommon
    /\ bound = TRUE
    /\ dispatcher \in {"sync", "async"}
    /\ throughput = 1
    /\ postLimit = MaxPosts + 1

NextOne ==
    \E t \in Threads :
        \/ PostUserMessage(t)
        \/ PostSuspendResume(t)
        \/ Schedule(t)
        \/ HandToDispatcher(t)
        \/ DispatcherRuns(t)
        \/ DrainPollSystem(t)
        \/ DrainBeginSystem(t)
        \/ DrainPollUser(t)
        \/ DrainInvokeReturns(t)
        \/ RunStoreIdle(t)
        \/ RunRecheckSys(t)
        \/ RunRecheckUser(t)

SpecOne == InitOne /\ [][NextOne]_vars

\* The process layer: an empty registry, Props with its defaults (the
\* synchronous dispatcher), threads that spawn under one name, tell through
\* PIDs of that name and stop the process.  The actor's receive returns
\* normally here; Spec has the receives that throw.
InitReg ==
    /\ InitCommon
    /\ bound = FALSE
    /\ dispatcher = "sync"
    /\ throughput = DefaultThroughput
    /\ postLimit = 0

NextReg ==
    \E t \in Threads :
        \/ TryAdd(t)
        \/ TryAddThrows(t)
        \/ TryAddReturns(t)
        \/ SpawnContext(t)
        \/ SpawnRegisterHandlers(t)
        \/ SpawnPostStarted(t)
        \/ SpawnStart(t)
        \/ TellRef(t)
        \/ TellGet(t)
        \/ TellSend(t)
        \/ StopSend(t)
        \/ StopMarkDead(t)
        \/ Schedule(t)
        \/ HandToDispatcher(t)
        \/ DrainPollSystem(t)
        \/ DrainBeginSystem(t)
        \/ DrainPollUser(t)
        \/ DrainInvokeReturns(t)
        \/ RunStoreIdle(t)
        \/ RunRecheckSys(t)
        \/ RunRecheckUser(t)

SpecReg == InitReg /\ [][NextReg]_vars

\* The mailbox made with a statistics observer, UnboundedMailbox::create(stats),
\* bound to some dispatcher and used through its two post functions by an
\* actor that does not throw.
InitStats ==
    /\ InitCommon
    /\ bound = TRUE
    /\ dispatcher \in {"sync", "async"}
    /\ throughput \in 1..MaxThroughput
    /\ postLimit = MaxPosts

NextStats ==
    \E t \in Threads :
        \/ PostNotify(t)
        \/ PostPush(t)
        \/ Schedule(t)
        \/ HandToDispatcher(t)
        \/ DispatcherRuns(t)
        \/ DrainPollSystem(t)
        \/ DrainBeginSystem(t)
        \/ DrainPollUser(t)
        \/ DrainInvokeReturns(t)
        \/ RunStoreIdle(t)
        \/ RunRecheckSys(t)
        \/ RunRecheckUser(t)

SpecStats == InitStats /\ [][NextStats]_vars

-----------------------------------------------------------------------------
(* Vocabulary of the properties *)

\* The activations on the call stacks, as <<thread, depth>>, and those at
\* one of the given places.
AllFrames == UNION {{<<t, k>> : k \in DOMAIN stack[t]} : t \in Threads}
FramesAt(pcs) == {x \in AllFrames : stack[x[1]][x[2]].pc \in pcs}

\* Inside an invoker call; inside process_messages; between a won CAS and
\* the dispatcher having the runnable.
InvokePcs == {"inv_sys", "inv_user"}
ProcessPcs == {"pm_loop", "pm_sys", "pm_user", "inv_sys", "inv_user", "idle_store"}
HandPcs == {"sched_hand"}

\* No thread is inside a call and the dispatcher holds no runnable.
Quiescent == pending = 0 /\ \A t \in Threads : stack[t] = <<>>

\* A message a drain could deliver is waiting.
Deliverable == sysq # <<>> \/ (~suspended /\ userq # <<>>)

LogIds == {log[i].msg.id : i \in DOMAIN log}

-----------------------------------------------------------------------------
(* C1 *)

\* C1: for one DefaultMailbox, under every interleaving of
\* post_user_message and post_system_message calls of several threads
\* (posts from the actor's own receive included, with an inline or an
\* asynchronous dispatcher), at most one invoker call
\* (invoke_user_message or invoke_system_message) is in progress at any time.
C1_Serialization == Cardinality(FramesAt(InvokePcs)) <= 1

\* An invoker call is in progress on one thread while another thread is
\* still in the tail of an earlier run (after its store of Idle) and a
\* further message waits: two activations of run overlap.
C1_Witness ==
    \E t, u \in Threads :
        /\ t # u
        /\ Invoking(t)
        /\ At(u, "recheck_user")
        /\ userq # <<>>

-----------------------------------------------------------------------------
(* C2 *)

\* C2: no lost wakeup.  No state is reachable in which no thread is inside
\* a call, status is Idle, no drain runnable is pending or running, and yet
\* the system queue is non-empty or the mailbox is unsuspended with a
\* non-empty user queue: a message whose push completed, in particular
\* between the drain's last empty pop, its store of Idle and its post-drain
\* has_messages check, is picked up by a drain.
C2_NoLostWakeup == (Quiescent /\ status = "Idle") => ~Deliverable

\* The race itself: a drain that found the user queue empty before its
\* throughput was used up has stored Idle and is at the post-drain check,
\* the message pushed meanwhile waits, and its poster (who saw Busy) is gone.
C2_Witness ==
    \E t \in Threads :
        /\ At(t, "recheck_user")
        /\ Top(t).i < throughput
        /\ escalated = <<>>
        /\ status = "Idle"
        /\ pending = 0
        /\ ~suspended
        /\ userq # <<>>
        /\ \A u \in Threads \ {t} : stack[u] = <<>>

-----------------------------------------------------------------------------
(* C3 *)

\* C3: after LocalProcess::stop has returned for a registered process,
\* every later tell on a PID of that id, whether the PID had cached the
\* process or resolves it freshly, goes to the dead-letter process:
\* nothing is posted to the stopped process's mailbox.
C3_DeadAfterStop == lateSends = 0

-----------------------------------------------------------------------------
(* C4 *)

\* C4: once the drain has handled a SuspendMailbox, no user message is
\* invoked until a later ResumeMailbox has been handled, under any
\* interleaving of posts; and system messages posted while the mailbox is
\* suspended are still invoked (none is left behind when the mailbox comes
\* to rest Idle).
C4_SuspendResume ==
    /\ \A i, j \in DOMAIN log :
          (i < j /\ log[i].msg.kind = "Suspend" /\ log[j].via = "user")
              => \E k \in DOMAIN log : i < k /\ k < j /\ log[k].msg.kind = "Resume"
    /\ (Quiescent /\ status = "Idle" /\ suspended) => sysq = <<>>

\* A SuspendMailbox was handled, a user message pushed after it waits, and a
\* system message pushed later still has been invoked past it.
C4_Witness ==
    /\ suspended
    /\ userq # <<>>
    /\ \E i, j \in DOMAIN log :
          /\ i < j
          /\ log[i].msg.kind = "Suspend"
          /\ log[j].via = "sys"
          /\ log[i].msg.id < Head(userq).id
          /\ Head(userq).id < log[j].msg.id
          /\ \A k \in DOMAIN log : k > i => log[k].msg.kind # "Resume"

-----------------------------------------------------------------------------
(* C5 *)

\* C5: whenever an invoker call raises an exception, whatever the actor's
\* receive threw, escalate_failure is called with the message in flight,
\* the drain pass stops, status returns to Idle in run, and the mailbox
\* reschedules when deliverable messages remain: it never stays Busy with
\* no drain left to run, and no deliverable message is left behind.
C5_FailureEscalated ==
    /\ ~stuck
    /\ Quiescent => (status = "Idle" /\ ~Deliverable)

-----------------------------------------------------------------------------
(* C6 *)

\* C6: one execution of run makes at most throughput() invoker calls,
\* system and user together; when deliverable messages remain it stores
\* Idle and schedules a new run, so that once the mailbox is at rest, Idle
\* and unsuspended, every message posted has been handed to the invoker
\* exactly once.
C6_ThroughputCap ==
    /\ \A x \in AllFrames : stack[x[1]][x[2]].n <= throughput
    /\ (Quiescent /\ status = "Idle" /\ ~suspended) =>
          /\ Len(log) = nposted
          /\ LogIds = 1..nposted

\* The first run made exactly throughput() invoker calls, has stored Idle
\* and finds a further user message at its post-drain check.
C6_Witness ==
    \E t \in Threads :
        /\ At(t, "recheck_user")
        /\ Top(t).n = throughput
        /\ Len(log) = throughput
        /\ ~suspended
        /\ userq # <<>>
        /\ status = "Idle"

-----------------------------------------------------------------------------
(* C7 *)

\* C7: at most one drain runnable is handed to the dispatcher and not yet
\* started; a runnable is handed over only by the thread whose CAS from
\* Idle to Busy succeeded; and status is Busy for as long as a runnable is
\* about to be handed over, is pending, or is executing process_messages.
C7_Latch ==
    LET inFlight == Cardinality(FramesAt(HandPcs)) + pending
                      + Cardinality(FramesAt(ProcessPcs))
    IN /\ pending <= 1
       /\ inFlight <= 1
       /\ inFlight = 1 => status = "Busy"

\* A runnable is pending at the dispatcher while a second poster, whose
\* message is queued as well, is at its compare-and-swap.
C7_Witness ==
    /\ pending = 1
    /\ Len(sysq) + Len(userq) >= 2
    /\ \E t \in Threads : At(t, "sched_cas")

-----------------------------------------------------------------------------
(* C8 *)

\* The SuspendMailbox messages pushed so far: waiting, popped, or invoked.
Suspends ==
    {m \in {sysq[k] : k \in DOMAIN sysq}
             \cup {stack[x[1]][x[2]].msg : x \in AllFrames}
             \cup {log[i].msg : i \in DOMAIN log} : m.kind = "Suspend"}

\* Suspend s was handled, and a ResumeMailbox after it, before log entry j.
ResumedBefore(s, j) ==
    \E i, k \in DOMAIN log :
        i < k /\ k < j /\ log[i].msg = s /\ log[k].msg.kind = "Resume"

\* Every drain iteration polls the system queue before the user queue: a
\* user message is invoked only by an iteration for which no system message
\* pushed before the iteration began is still waiting.
PolledSystemFirst ==
    \A t \in Threads :
        At(t, "inv_user") => \A k \in DOMAIN sysq : sysq[k].id > iterAt[t]

\* C8 as stated: the system queue is polled before the user queue in every
\* iteration, and with throughput 1 a user message posted after a
\* SuspendMailbox is delivered only after the following ResumeMailbox has
\* been handled.
C8_AsStated ==
    /\ PolledSystemFirst
    /\ throughput = 1 =>
          \A j \in DOMAIN log :
              log[j].via = "user" =>
                  \A s \in Suspends : s.id < log[j].msg.id => ResumedBefore(s, j)

\* C8, amended: the system queue is polled before the user queue in every
\* iteration, so a system message that is in the system queue when an
\* iteration begins is invoked before any further user message; and a user
\* message is delivered only after the following ResumeMailbox has been
\* handled if the SuspendMailbox was in the system queue (or handled) when
\* the iteration that pops the user message began.
C8_Preemption ==
    /\ PolledSystemFirst
    /\ \A t \in Threads :
          At(t, "inv_user") =>
              \A s \in Suspends : s.id <= iterAt[t] => ResumedBefore(s, Len(log))

\* A user message pushed after a SuspendMailbox is being invoked, after the
\* SuspendMailbox and then a ResumeMailbox were handled.
C8_Witness ==
    \E t \in Threads :
        /\ At(t, "inv_user")
        /\ \E s \in Suspends :
              /\ s.id < Top(t).msg.id
              /\ s.id <= iterAt[t]
              /\ ResumedBefore(s, Len(log))

-----------------------------------------------------------------------------
(* C9 *)

\* C9: the Started, Stop, SuspendMailbox and ResumeMailbox instances are
\* never destroyed, however often they are posted, popped, invoked or
\* dropped, so the same instance can be sent again.
C9_SentinelsSurvive == destroyed \cap SysKinds = {}

-----------------------------------------------------------------------------
(* C10 *)

\* C10: of any number of concurrent try_add calls with one id exactly one
\* returns a PID and every other one raises NameAlreadyExists; the id is
\* mapped to one process, the winner's, and no loser replaces that entry.
C10_RegistryUnique ==
    /\ Cardinality(added) <= 1
    /\ added \cap refused = {}
    /\ added \subseteq {reg}
    /\ reg \notin refused
    /\ refused # {} => reg # NoProc
    /\ (nspawn > 0 /\ FramesAt({"try_add_ok", "try_add_dup"}) = {}) =>
          /\ Cardinality(added) = 1
          /\ refused = (1..nspawn) \ added

\* Two calls of try_add are in flight at once: one has inserted, the other
\* has found the id taken, and neither has returned or thrown yet.
C10_Witness ==
    \E t, u \in Threads :
        /\ At(t, "try_add_ok")
        /\ At(u, "try_add_dup")

-----------------------------------------------------------------------------
(* C11 *)

\* The messages pushed so far, wherever they are now: waiting in a queue,
\* held by a drain, or invoked.
Queued(q) == {q[k] : k \in DOMAIN q}
Pushed ==
    (Queued(sysq) \cup Queued(userq)
        \cup {stack[x[1]][x[2]].msg : x \in FramesAt(ProcessPcs)}
        \cup {log[i].msg : i \in DOMAIN log}) \ {NoMsg}
PushedOf(kind) == {m \in Pushed : m.kind = kind}

\* The processes whose emplace found the name taken.
Losers == {p \in 1..nspawn : p # reg}

SpawnPcs == {"spawn_ctx", "spawn_bind", "spawn_post", "spawn_start"}

\* C11: a spawn under a registered name fails cleanly.  The registry keeps
\* mapping the name to the first process; a process that lost the emplace
\* never gets a PID returned, its try_add throws to the caller of spawn, the
\* spawner does not go on for it (no LocalContext is made, so the producer
\* is not called, and no Started is posted: there are no more Started
\* messages than incarnated actors); and a tell that resolves the name to a
\* process resolves it to the first one.
C11_DuplicateSpawn ==
    /\ reg \in {NoProc, 1}
    /\ Losers \cap added = {}
    /\ Losers \cap incarnated = {}
    /\ \A p \in Losers :
          \/ p \in refused
          \/ \E x \in FramesAt({"try_add_dup"}) : stack[x[1]][x[2]].p = p
    /\ \A x \in FramesAt(SpawnPcs) : stack[x[1]][x[2]].p \notin Losers
    /\ Cardinality(PushedOf("Started")) <= Cardinality(incarnated)
    /\ \A x \in FramesAt({"tell_send"}) :
          stack[x[1]][x[2]].p \in {DeadLetter, 1}

\* A second spawn under the name has thrown, the first actor is incarnated
\* and has received its Started, and a tell has resolved the name to the
\* first process and is about to post to its mailbox.
C11_Witness ==
    /\ refused = {2}
    /\ incarnated = {1}
    /\ \E i \in DOMAIN log : log[i].msg.kind = "Started"
    /\ \E t \in Threads : At(t, "tell_send") /\ Top(t).p = 1

-----------------------------------------------------------------------------
(* C12 *)

\* The invoker calls made for the messages of one queue, and the messages
\* of that queue still to be invoked (waiting, or popped by a drain that has
\* not called the invoker yet).
LogOf(via) == {i \in DOMAIN log : log[i].via = via}
Waiting(via) ==
    IF via = "sys"
    THEN Queued(sysq) \cup {stack[x[1]][x[2]].msg : x \in FramesAt({"pm_sys"})}
    ELSE Queued(userq)

\* C12: per-queue FIFO.  Message ids grow in the order of the pushes, so two
\* messages one thread posted to one queue carry ids in the order it posted
\* them.  For each queue the invoker calls are made in the order of the ids,
\* and no message is invoked while one pushed to the same queue before it
\* still waits; this holds across reschedules and posts of other threads.
C12_Fifo ==
    \A via \in {"sys", "user"} :
        /\ \A i, j \in LogOf(via) : i < j => log[i].msg.id < log[j].msg.id
        /\ \A i \in LogOf(via) : \A m \in Waiting(via) : log[i].msg.id < m.id

\* With inline scheduling and throughput 1 a thread has drained two user
\* messages in two runs, rescheduling itself in between, and stands after
\* its second run while the other thread has just pushed a third one.
C12_Witness ==
    /\ dispatcher = "sync"
    /\ throughput = 1
    /\ Len(log) = 2
    /\ LogOf("user") = {1, 2}
    /\ Len(userq) = 1
    /\ \E t, u \in Threads :
          /\ t # u
          /\ At(t, "recheck_user")
          /\ At(u, "sched_cas")

-----------------------------------------------------------------------------
(* C13 *)

\* No thread takes another step: every call has returned, or the program
\* has died on the null dispatcher_.
Halted == crashed \/ Quiescent

\* C13: exactly-once delivery.  No user message is passed to the invoker
\* twice, and once the threads have come to rest every user message that a
\* tell posted to the mailbox of the registered, incarnated actor (not
\* stopped, never suspended, its receive returning normally) has been
\* passed to it.
C13_ExactlyOnce ==
    /\ \A i, j \in LogOf("user") : i # j => log[i].msg # log[j].msg
    /\ (Halted /\ incarnated # {} /\ dead = {} /\ nstop = 0) =>
          PushedOf("User") = {log[i].msg : i \in LogOf("user")}

-----------------------------------------------------------------------------
(* C14 *)

RECURSIVE SumOver(_, _)
SumOver(f, S) ==
    IF S = {} THEN 0
    ELSE LET x == CHOOSE y \in S : TRUE IN f[x] + SumOver(f, S \ {x})

TellPcs == {"tell_get", "tell_send"}

-----------------------------------------------------------------------------
(* C15 *)

StartedCalls == {i \in DOMAIN log : log[i].msg.kind = "Started"}

\* C15: Started once per spawned actor.  The spawner posts one Started per
\* process that try_add accepted, on the system queue; the invoker call for
\* it is a call of the actor's receive with the message slot of the context
\* holding that Started; there is never a second invoker call for Started;
\* and once the spawn has returned and the threads are at rest, whatever
\* tells, stops and reschedules happened, Started was received exactly once.
C15_StartedOnce ==
    /\ Cardinality(PushedOf("Started")) <= Cardinality(added)
    /\ PushedOf("Started") \cap Queued(userq) = {}
    /\ Cardinality(StartedCalls) <= Cardinality(added)
    /\ \A i \in StartedCalls : log[i].via = "sys"
    /\ \A x \in FramesAt({"inv_sys"}) :
          stack[x[1]][x[2]].msg.kind = "Started" =>
              /\ CallsReceive(stack[x[1]][x[2]])
              /\ ctxMsg = stack[x[1]][x[2]].msg
    /\ (added # {} /\ Quiescent) => Cardinality(StartedCalls) = 1

\* The actor was spawned, told a message and stopped; all three invoker
\* calls were made, the threads are at rest, and Started was received once.
C15_Witness ==
    /\ Quiescent
    /\ added = {1}
    /\ Cardinality(StartedCalls) = 1
    /\ \E i \in DOMAIN log : log[i].msg.kind = "User"
    /\ \E i \in DOMAIN log : log[i].msg.kind = "Stop"

-----------------------------------------------------------------------------
(* C16 *)

\* C16: the message slot of the context is non-empty only during an
\* invocation.  Whenever no thread is inside a call of the actor's receive
\* (an invoke_user_message or a promoted Started), context.message() is
\* empty, also after an invocation that ended with an exception which the
\* drain escalated.
C16_SlotCleared ==
    (\A x \in FramesAt(InvokePcs) : ~CallsReceive(stack[x[1]][x[2]]))
        => ctxMsg = NoMsg

-----------------------------------------------------------------------------
(* C17 *)

\* The places whose next step reads or writes suspended_: the write before
\* invoke_system_message, the test before the pop of the user queue, and
\* the test of the post-drain check in run.  The places inside the loop of
\* process_messages, from which a write of suspended_ can still follow.
SuspendedAccessPcs == {"pm_sys", "pm_user", "recheck_user"}
LoopPcs == {"pm_loop", "pm_sys", "pm_user", "inv_sys", "inv_user"}

\* C17: suspended_ has no cross-thread access.  A thread that is about to
\* read or write suspended_ is the one holding the Busy latch: no other
\* thread is inside the drain loop, where it could write suspended_, at
\* that moment.
C17_SuspendedConfined ==
    \A t \in Threads :
        (Live(t) /\ Top(t).pc \in SuspendedAccessPcs) =>
            \A x \in FramesAt(LoopPcs) : x[1] = t

-----------------------------------------------------------------------------
(* C18 *)

\* C18: the posts push first, then notify the statistics observers, then
\* schedule.  When message_posted(m) has been observed (the post stands
\* between the loop over the observers and the call of schedule), m is in
\* its queue already, or was popped from it by a drain.
C18_PushBeforeNotify ==
    \A x \in Notified : stack[x[1]][x[2]].msg \in Pushed

-----------------------------------------------------------------------------
(* C19 *)

\* C19: a spawn that runs alongside tells on a PID of the same id never
\* lets a message be posted to the new mailbox, nor a drain be scheduled on
\* it, before register_handlers has bound its invoker and dispatcher: while
\* the mailbox is unbound no tell has pushed a user message to it, and the
\* null dispatcher_ is never dereferenced.
C19_BoundBeforePost ==
    /\ ~crashed
    /\ ~bound => userq = <<>>

-----------------------------------------------------------------------------
(* C20 *)

\* C20: Started is the first message a spawned actor receives.  Whatever
\* the interleaving of the spawner with tells of other threads on a PID of
\* the same id, the first call of the actor's receive is the one for
\* Started: no user message is invoked before it.
C20_StartedFirst ==
    \A j \in LogOf("user") : \E i \in StartedCalls : i < j

====
